---- MODULE Spec2Model ----
(***************************************************************************)
(* The venue adapter layer of the dashboard: TradingAPI                    *)
(* (src/lib/trading-api.ts), CryptoAPI (src/lib/crypto-api.ts) and         *)
(* RithmicAPI (src/unnamed/part_002).  One adapter instance is modelled;   *)
(* which of the three classes it is, is fixed in the initial state.        *)
(* The browser's WebSocket objects and timers are the environment: every   *)
(* socket the adapter created and that can still raise an event is kept,   *)
(* with the handlers (and the symbols they closed over) it was given.      *)
(***************************************************************************)
EXTENDS Integers, Sequences, FiniteSets, TLC

VARIABLES
  adapter,            \* which class this instance is: "broker", "crypto", "rithmic"
  config,             \* this.config: Null or the venue name of the stored config
  websocket,          \* this.websocket: 0 (null) or the id of a socket
  sockets,            \* id -> [state, symbols, established]: the sockets that can
                      \* still raise events (established: the connection was opened)
  created,            \* number of sockets constructed so far (ids are 1..created)
  timers,             \* pending setTimeout callbacks of handleReconnection, oldest first
  reconnectAttempts,  \* this.reconnectAttempts
  connected,          \* RithmicAPI.connected (unused, FALSE, on the other two)
  marketDataCallbacks,
  orderUpdateCallbacks,
  accountUpdateCallbacks,
  registrations,      \* history: per list, the callbacks registered since the last
                      \* disconnect(), in call order
  disconnected,       \* history: disconnect() was called and connect was not called since
  backoff,            \* history: the delay each close event scheduled (0: none) since
                      \* the last open (login on RithmicAPI) or configure
  requested,          \* history: the symbols of the most recent connectMarketData
                      \* call by the caller that constructed a socket ("-": none);
                      \* kept by SpecReplace only
  out,                \* what the last step was and what it did besides changing fields
  panel,              \* BrokerConnection: selectedCrypto, cryptoTestnet, and the
                      \* config its handleConnect last passed to cryptoAPI.configure
  trades,             \* useTradeStore: the stored trades list
  requests,           \* the REST calls whose fetch has not settled, oldest first
  venueOrder,         \* the status the venue holds for the order the panel shows
  orders              \* LiveOrderManagement's orders: the status recorded for that order

sessionVars == <<adapter, config, websocket, sockets, created, timers,
                 reconnectAttempts, connected, marketDataCallbacks,
                 orderUpdateCallbacks, accountUpdateCallbacks, registrations,
                 disconnected, backoff, requested>>

restVars == <<requests, venueOrder, orders>>

uiVars == <<panel, trades>>

vars == <<adapter, config, websocket, sockets, created, timers, reconnectAttempts,
          connected, marketDataCallbacks, orderUpdateCallbacks,
          accountUpdateCallbacks, registrations, disconnected, backoff, out,
          requests, venueOrder, orders, requested, panel, trades>>

----------------------------------------------------------------------------
(* Bounds of the model *)

MaxSockets == 3          \* sockets constructed, session lifecycle (Spec)
ChainSockets == 6        \* sockets constructed, reconnection chain (SpecBackoff)
ChainCalls == 2          \* of these, sockets the caller's connect calls construct
StreamSockets == 1       \* sockets constructed, message dispatch (SpecDispatch)
FrameSockets == 2        \* sockets constructed, control frames (SpecFrames)
LiveSockets == 3         \* sockets constructed, fair timers (SpecLive)
ReplaceSockets == 4      \* sockets constructed, replaced sessions (SpecReplace)
GatewaySockets == 2      \* sockets constructed, gateway requests (SpecGateway)
MaxTrades == 2           \* trades in the trade store (SpecStore)
MaxCalls == 2            \* REST calls in flight (SpecRest)
OrderLoads == 2          \* getOrders calls in flight (SpecOrders)
MaxCallbacks == 2        \* registrations between two disconnects, over all lists

(* Program constants *)

maxReconnectAttempts == 5

Null == "null"
Adapters == {"broker", "crypto", "rithmic"}
CallbackIds == {"f", "g"}
Throwing == {"boom"}     \* a callback that throws when it is invoked
SymbolSets == {"S1", "S2"}
Payloads == {1, 2}       \* the price a data frame carries

BrokerVenues == {"alpaca", "polygon", "finnhub"}
CryptoVenues == {"bybit", "kucoin", "kraken", "crypto_com", "coinex", "bitget"}

\* The config values configure() is called with: the venue names the class
\* knows, and one it does not (its switch statements fall to default).
ConfigValues(a) ==
  CASE a = "broker" -> BrokerVenues \cup {"other"}
    [] a = "crypto" -> CryptoVenues \cup {"other"}
    [] a = "rithmic" -> {"gateway"}

\* The symbols argument of connectMarketData; RithmicAPI.connect takes none.
SymbolArgs(a) == IF a = "rithmic" THEN {"-"} ELSE SymbolSets

CONNECTING == "CONNECTING"
OPEN == "OPEN"
CLOSING == "CLOSING"
CLOSED == "CLOSED"

----------------------------------------------------------------------------
(* Frames a socket can deliver, described by what the handler's tests see.  *)
(* JSON adapters: kind "garbage" is text JSON.parse rejects, "null" the    *)
(* JSON value null, "data" a well-formed data event of the configured      *)
(* venue with price p, "partial" an object that passes the configured      *)
(* venue's data test and carries an empty payload, "ack" any other object  *)
(* (a subscription acknowledgment, a heartbeat, an event in another        *)
(* venue's format).                                                        *)
(* Rithmic: kind "garbage" and "null" as above, "short" a binary frame of  *)
(* less than two bytes, "msg" a JSON message with template_id tid (rp      *)
(* tells whether rp_code[0] is "0", p is the price or value it carries),   *)
(* "binary" a binary frame whose first two bytes are tid (parseMessage     *)
(* gives it no other field, so it is handled as the JSON message of that   *)
(* template with every field missing: three templates stand for the rest). *)

RithmicTemplates == {11, 150, 101, 102, 103, 999}

Frames(a) ==
  IF a = "rithmic"
  THEN [kind : {"garbage", "null", "short"}, tid : {0}, rp : {FALSE}, p : {0}]
       \cup [kind : {"msg"}, tid : {11}, rp : BOOLEAN, p : {0}]
       \cup [kind : {"msg"}, tid : {150}, rp : {FALSE}, p : Payloads]
       \cup [kind : {"msg"}, tid : RithmicTemplates \ {11, 150}, rp : {FALSE}, p : {1}]
       \cup [kind : {"binary"}, tid : {11, 150, 999}, rp : {FALSE}, p : {0}]
  ELSE [kind : {"garbage", "null", "ack", "partial"}, p : {0}]
       \cup [kind : {"data"}, p : Payloads]

\* Result of a normalizer: a tick, null, or a thrown TypeError.
Tick == "tick"
NoTick == "none"
Throws == "throws"

----------------------------------------------------------------------------
(* Protocol normalizers: what each parse function returns for a frame.     *)
(* The partial frames are {T:"t"}, {ev:"T"}, {type:"trade"},               *)
(* {topic:"tickers.X", data:{}}, {type:"message", topic:..., data:{}},     *)
(* [0, {}, "ticker"], {method:"subscribe", result:{data:{}}},              *)
(* {method:"state.update", params:[]}, {action:"snapshot", arg:{},         *)
(* data:[]}.  Reading a field of null or undefined throws;                 *)
(* parseFloat(undefined) is NaN and does not.                              *)

\* parseAlpacaData without its test of data.T: every object becomes a tick
parseAlpacaData_untested(f) ==
  IF f.kind = "null" THEN Throws ELSE Tick

\* data.T === "t"
parseAlpacaData(f) ==
  IF f.kind = "null" THEN Throws
  ELSE IF f.kind \in {"data", "partial"} THEN Tick
  ELSE NoTick

\* data.ev === "T"
parsePolygonData(f) ==
  IF f.kind = "null" THEN Throws
  ELSE IF f.kind \in {"data", "partial"} THEN Tick
  ELSE NoTick

\* data.type === "trade"
parseFinnhubData(f) ==
  IF f.kind = "null" THEN Throws
  ELSE IF f.kind \in {"data", "partial"} THEN Tick
  ELSE NoTick

\* data.topic && data.topic.startsWith("tickers.") && data.data
parseBybitData(f) ==
  IF f.kind = "null" THEN Throws
  ELSE IF f.kind \in {"data", "partial"} THEN Tick
  ELSE NoTick

\* data.type === "message" && data.topic === "/market/ticker:all" && data.data
parseKuCoinData(f) ==
  IF f.kind = "null" THEN Throws
  ELSE IF f.kind \in {"data", "partial"} THEN Tick
  ELSE NoTick

\* Array.isArray(data) && data[1] && data[2] === "ticker"; then ticker.c[0]
parseKrakenData(f) ==
  IF f.kind = "data" THEN Tick
  ELSE IF f.kind = "partial" THEN Throws
  ELSE NoTick

\* data.method === "subscribe" && data.result && data.result.data
parseCryptoComData(f) ==
  IF f.kind = "null" THEN Throws
  ELSE IF f.kind \in {"data", "partial"} THEN Tick
  ELSE NoTick

\* data.method === "state.update" && data.params; then data.params[1].last
parseCoinExData(f) ==
  IF f.kind = "null" THEN Throws
  ELSE IF f.kind = "data" THEN Tick
  ELSE IF f.kind = "partial" THEN Throws
  ELSE NoTick

\* data.action === "snapshot" && data.arg && data.data; then data.data[0].last
parseBitgetData(f) ==
  IF f.kind = "null" THEN Throws
  ELSE IF f.kind = "data" THEN Tick
  ELSE IF f.kind = "partial" THEN Throws
  ELSE NoTick

\* The switch of handleMarketDataMessage on this.config.name (no default arm:
\* an unknown venue leaves the tick null).
normalize(venue, f) ==
  CASE venue = "alpaca" -> parseAlpacaData(f)
    [] venue = "polygon" -> parsePolygonData(f)
    [] venue = "finnhub" -> parseFinnhubData(f)
    [] venue = "bybit" -> parseBybitData(f)
    [] venue = "kucoin" -> parseKuCoinData(f)
    [] venue = "kraken" -> parseKrakenData(f)
    [] venue = "crypto_com" -> parseCryptoComData(f)
    [] venue = "coinex" -> parseCoinExData(f)
    [] venue = "bitget" -> parseBitgetData(f)
    [] OTHER -> NoTick

\* getWebSocketUrl: throws for a venue the class does not know.  The
\* Rithmic URL is built from the gateway name and never throws.
urlThrows(a, venue) ==
  CASE a = "broker" -> venue \notin BrokerVenues
    [] a = "crypto" -> venue \notin CryptoVenues
    [] OTHER -> FALSE

\* createSubscriptionMessage: throws for a venue the class does not know.
subscriptionThrows(a, venue) ==
  CASE a = "broker" -> venue \notin BrokerVenues
    [] a = "crypto" -> venue \notin CryptoVenues
    [] OTHER -> FALSE

\* The handshake sent on open.  alpaca and polygon send credentials, kucoin
\* subscribes to all tickers: only the other venues' messages carry the symbols.
createSubscriptionMessage(venue, symbols) ==
  IF venue \in {"alpaca", "polygon"} THEN [msg |-> "auth", symbols |-> "-"]
  ELSE IF venue = "kucoin" THEN [msg |-> "subscribe", symbols |-> "all"]
  ELSE [msg |-> "subscribe", symbols |-> symbols]

\* RithmicAPI.parseMessage: JSON.parse for text, the first two bytes for binary.
\* Returns an object with a template_id ("message"), Null for the JSON value
\* null, or Throws (JSON.parse's SyntaxError, DataView's RangeError).
parseMessage(f) ==
  CASE f.kind = "garbage" -> Throws
    [] f.kind = "short" -> Throws
    [] f.kind = "null" -> Null
    [] OTHER -> "message"

----------------------------------------------------------------------------
(* The WebSocket environment *)

\* A connect or disconnect that leaves the previous socket as it is
closeSocket_noop(socks, id) == socks

\* WebSocket.close(): a connecting or open socket starts closing; a closing
\* or closed one is left as it is.
closeSocket(socks, id) ==
  IF id \in DOMAIN socks /\ socks[id].state \in {CONNECTING, OPEN}
  THEN [socks EXCEPT ![id].state = CLOSING]
  ELSE socks

\* A closed socket raises no further event: once the adapter no longer
\* refers to it, it is garbage.
reap(socks, ws) ==
  [id \in {i \in DOMAIN socks : socks[i].state # CLOSED \/ i = ws} |-> socks[id]]

\* WebSocket.send on socket id: delivered when open, dropped when closing or
\* closed, InvalidStateError when still connecting.
sendResult(socks, id) ==
  CASE id \notin DOMAIN socks -> "dropped"
    [] socks[id].state = OPEN -> "sent"
    [] socks[id].state = CONNECTING -> Throws
    [] OTHER -> "dropped"

\* forEach stops at the first callback that throws: the number of callbacks
\* of cbs it invokes, and whether the exception leaves it
reached(cbs) ==
  IF \E i \in 1..Len(cbs) : cbs[i] \in Throwing
  THEN CHOOSE i \in 1..Len(cbs) :
         /\ cbs[i] \in Throwing
         /\ \A j \in 1..(i - 1) : cbs[j] \notin Throwing
  ELSE Len(cbs)
forEachThrows(cbs) == \E i \in 1..Len(cbs) : cbs[i] \in Throwing

\* A dispatch that hands every callback the first price instead of the frame's
Invocations_stale(p, list, cbs) == [i \in 1..Len(cbs) |-> <<1, list, cbs[i]>>]

\* callbacks.forEach((callback) => callback(event)), the event carrying price p
Invocations(p, list, cbs) == [i \in 1..reached(cbs) |-> <<p, list, cbs[i]>>]

\* What a step did besides changing the adapter's fields: the operation or
\* event, the socket it concerns, the frame it delivered, whether it threw
\* ("no", "caught" by the handler's own try/catch, "uncaught": out of the
\* handler or to the caller), the message it sent, if any, the callbacks it
\* invoked, in order, and the delay of the timer it scheduled (0: none).
NoSend == [to |-> 0, msg |-> "-", symbols |-> "-"]
NoFrame == [kind |-> "-"]
Out(op, sock, frame, threw, sent, invoked, delay) ==
  [op |-> op, sock |-> sock, frame |-> frame, threw |-> threw, sent |-> sent,
   invoked |-> invoked, delay |-> delay]
Did(op, sock, threw) == Out(op, sock, NoFrame, threw, NoSend, << >>, 0)

----------------------------------------------------------------------------
(* The registry of exchange configs and the connection panel *)

\* CRYPTO_CONFIGS, keyed by <<exchange, suffix>> for the key exchange + suffix
CRYPTO_CONFIGS ==
  (<<"bybit", "">> :>
     [name |-> "bybit", baseUrl |-> "https://api.bybit.com", testnet |-> FALSE])
  @@ (<<"bybit", "_testnet">> :>
     [name |-> "bybit", baseUrl |-> "https://api-testnet.bybit.com", testnet |-> TRUE])
  @@ (<<"kucoin", "">> :>
     [name |-> "kucoin", baseUrl |-> "https://api.kucoin.com", testnet |-> FALSE])
  @@ (<<"kucoin", "_sandbox">> :>
     [name |-> "kucoin", baseUrl |-> "https://openapi-sandbox.kucoin.com",
      testnet |-> TRUE])
  @@ (<<"kraken", "">> :>
     [name |-> "kraken", baseUrl |-> "https://api.kraken.com", testnet |-> FALSE])
  @@ (<<"crypto_com", "">> :>
     [name |-> "crypto_com", baseUrl |-> "https://api.crypto.com/v2",
      testnet |-> FALSE])
  @@ (<<"crypto_com", "_sandbox">> :>
     [name |-> "crypto_com", baseUrl |-> "https://uat-api.3ona.co/v2",
      testnet |-> TRUE])
  @@ (<<"coinex", "">> :>
     [name |-> "coinex", baseUrl |-> "https://api.coinex.com", testnet |-> FALSE])
  @@ (<<"bitget", "">> :>
     [name |-> "bitget", baseUrl |-> "https://api.bitget.com", testnet |-> FALSE])
  @@ (<<"bitget", "_sandbox">> :>
     [name |-> "bitget", baseUrl |-> "https://api.bitgetapi.com", testnet |-> TRUE])

\* No config passed yet
NoConfig == [name |-> "-", baseUrl |-> "-", testnet |-> FALSE]

\* a || b on two template strings: a unless it is the empty string
orElse(a, b) == IF a[1] # "" \/ a[2] # "" THEN a ELSE b

\* cryptoTestnet ? `${selectedCrypto}_testnet` || `${selectedCrypto}_sandbox`
\*               : selectedCrypto
configKey(selectedCrypto, cryptoTestnet) ==
  IF cryptoTestnet
  THEN orElse(<<selectedCrypto, "_testnet">>, <<selectedCrypto, "_sandbox">>)
  ELSE <<selectedCrypto, "">>

\* The config handleConnect builds: CRYPTO_CONFIGS[key] || CRYPTO_CONFIGS[
\* selectedCrypto], spread, with testnet: cryptoTestnet on top
connectConfig(selectedCrypto, cryptoTestnet) ==
  LET key == configKey(selectedCrypto, cryptoTestnet)
      baseConfig == IF key \in DOMAIN CRYPTO_CONFIGS
                    THEN CRYPTO_CONFIGS[key]
                    ELSE CRYPTO_CONFIGS[<<selectedCrypto, "">>]
  IN  [baseConfig EXCEPT !.testnet = cryptoTestnet]

----------------------------------------------------------------------------
(* Initial state: a freshly constructed adapter *)

Init ==
  /\ adapter \in Adapters
  /\ config = Null
  /\ websocket = 0
  /\ sockets = << >>
  /\ created = 0
  /\ timers = << >>
  /\ reconnectAttempts = 0
  /\ connected = FALSE
  /\ marketDataCallbacks = << >>
  /\ orderUpdateCallbacks = << >>
  /\ accountUpdateCallbacks = << >>
  /\ registrations = [market |-> << >>, order |-> << >>, account |-> << >>]
  /\ disconnected = FALSE
  /\ backoff = << >>
  /\ out = Did("new", 0, "no")
  /\ requests = << >>
  /\ venueOrder = "none"
  /\ orders = "none"
  /\ requested = "-"
  /\ panel = [selectedCrypto |-> "bybit", cryptoTestnet |-> TRUE, configured |-> NoConfig]
  /\ trades = << >>

callbackVars ==
  <<marketDataCallbacks, orderUpdateCallbacks, accountUpdateCallbacks, registrations>>

\* isConnected(): the ready state of this.websocket on TradingAPI and
\* CryptoAPI, the connected flag on RithmicAPI.
isConnected ==
  IF adapter = "rithmic" THEN connected
  ELSE websocket # 0 /\ sockets[websocket].state = OPEN

----------------------------------------------------------------------------
(* Operations of the adapter *)

\* A configure that stores the config and leaves the counter as it is
configure_keeping(c) ==
  /\ config' = c
  /\ out' = Did("configure", 0, "no")
  /\ UNCHANGED <<adapter, websocket, sockets, created, timers, connected,
                 callbackVars, disconnected, reconnectAttempts, backoff>>

\* configure(config)
configure(c) ==
  /\ config' = c
  /\ reconnectAttempts' = 0
  /\ backoff' = << >>
  /\ out' = Did("configure", 0, "no")
  /\ UNCHANGED <<adapter, websocket, sockets, created, timers, connected,
                 callbackVars, disconnected>>

\* A connect whose tests of this.config are missing: it opens a socket to an
\* undefined URL
connectBody_unchecked(symbols, op, max) ==
  LET closed == closeSocket(sockets, websocket) IN
  IF config # Null /\ urlThrows(adapter, config)
  THEN /\ sockets' = closed
       /\ out' = Did(op, 0, "uncaught")
       /\ UNCHANGED <<websocket, created>>
  ELSE /\ created < max
       /\ created' = created + 1
       /\ websocket' = created + 1
       /\ sockets' = reap([id \in DOMAIN closed \cup {created + 1} |->
                             IF id = created + 1
                             THEN [state |-> CONNECTING, symbols |-> symbols,
                                   established |-> FALSE]
                             ELSE closed[id]],
                          created + 1)
       /\ out' = Did(op, created + 1, "no")

\* The body of connectMarketData(symbols) / connect(), called by the user
\* (op = "connect") or by a reconnection timer (op = "timer"); at most max
\* sockets are constructed.
connectBody(symbols, op, max) ==
  IF config = Null
  THEN /\ out' = Did(op, 0, "uncaught")
       /\ UNCHANGED <<websocket, sockets, created>>
  ELSE LET closed == closeSocket(sockets, websocket) IN
       IF urlThrows(adapter, config)
       THEN /\ sockets' = closed
            /\ out' = Did(op, 0, "uncaught")
            /\ UNCHANGED <<websocket, created>>
       ELSE /\ created < max
            /\ created' = created + 1
            /\ websocket' = created + 1
            /\ sockets' = reap([id \in DOMAIN closed \cup {created + 1} |->
                                  IF id = created + 1
                                  THEN [state |-> CONNECTING, symbols |-> symbols,
                                        established |-> FALSE]
                                  ELSE closed[id]],
                               created + 1)
            /\ out' = Did(op, created + 1, "no")

connectMarketData(symbols, max) ==
  /\ connectBody(symbols, "connect", max)
  /\ disconnected' = FALSE
  /\ UNCHANGED <<adapter, config, timers, reconnectAttempts, connected,
                 callbackVars, backoff>>

\* A linear backoff; it agrees with the code on the first two delays
delayOf_linear(attempt) == attempt * 2000

\* Math.pow(2, this.reconnectAttempts) * 1000
delayOf(attempt) == (2 ^ attempt) * 1000

\* A handleReconnection that counts the attempt and computes the delay, and
\* never calls setTimeout
handleReconnection_unscheduled(id, symbols) ==
  IF reconnectAttempts < maxReconnectAttempts
  THEN /\ reconnectAttempts' = reconnectAttempts + 1
       /\ backoff' = Append(backoff, delayOf(reconnectAttempts + 1))
       /\ out' = Out("close", id, NoFrame, "no", NoSend, << >>,
                     delayOf(reconnectAttempts + 1))
       /\ UNCHANGED timers
  ELSE /\ backoff' = Append(backoff, 0)
       /\ out' = Did("close", id, "no")
       /\ UNCHANGED <<reconnectAttempts, timers>>

\* A handleReconnection that compares with <= and allows one attempt more
handleReconnection_onemore(id, symbols) ==
  IF reconnectAttempts <= maxReconnectAttempts
  THEN /\ reconnectAttempts' = reconnectAttempts + 1
       /\ timers' = Append(timers, [delay |-> delayOf(reconnectAttempts + 1),
                                    symbols |-> symbols])
       /\ backoff' = Append(backoff, delayOf(reconnectAttempts + 1))
       /\ out' = Out("close", id, NoFrame, "no", NoSend, << >>,
                     delayOf(reconnectAttempts + 1))
  ELSE /\ backoff' = Append(backoff, 0)
       /\ out' = Did("close", id, "no")
       /\ UNCHANGED <<reconnectAttempts, timers>>

\* handleReconnection(symbols), run by onclose of socket id
handleReconnection(id, symbols) ==
  IF reconnectAttempts < maxReconnectAttempts
  THEN /\ reconnectAttempts' = reconnectAttempts + 1
       /\ timers' = Append(timers, [delay |-> delayOf(reconnectAttempts + 1),
                                    symbols |-> symbols])
       /\ backoff' = Append(backoff, delayOf(reconnectAttempts + 1))
       /\ out' = Out("close", id, NoFrame, "no", NoSend, << >>,
                     delayOf(reconnectAttempts + 1))
  ELSE /\ backoff' = Append(backoff, 0)
       /\ out' = Did("close", id, "no")
       /\ UNCHANGED <<reconnectAttempts, timers>>

\* The setTimeout callback of handleReconnection.  A timer scheduled earlier
\* with a delay no longer than this one's has fired before it.
reconnectTimer(i, max) ==
  /\ i \in 1..Len(timers)
  /\ \A j \in 1..(i - 1) : timers[j].delay > timers[i].delay
  /\ timers' = [k \in 1..(Len(timers) - 1) |->
                  IF k < i THEN timers[k] ELSE timers[k + 1]]
  /\ connectBody(timers[i].symbols, "timer", max)
  /\ UNCHANGED <<adapter, config, reconnectAttempts, connected, callbackVars,
                 disconnected, backoff>>

\* The number of registrations since the last disconnect()
registered ==
  Len(registrations.market) + Len(registrations.order) + Len(registrations.account)

\* An onMarketData that skips a callback already in the list
onMarketData_unique(cb) ==
  /\ registered < MaxCallbacks
  /\ marketDataCallbacks' =
       IF \E i \in 1..Len(marketDataCallbacks) : marketDataCallbacks[i] = cb
       THEN marketDataCallbacks
       ELSE Append(marketDataCallbacks, cb)
  /\ registrations' = [registrations EXCEPT !.market = Append(@, cb)]
  /\ out' = Did("onMarketData", 0, "no")
  /\ UNCHANGED <<adapter, config, websocket, sockets, created, timers,
                 reconnectAttempts, connected, orderUpdateCallbacks,
                 accountUpdateCallbacks, disconnected, backoff>>

\* onMarketData(callback)
onMarketData(cb) ==
  /\ registered < MaxCallbacks
  /\ marketDataCallbacks' = Append(marketDataCallbacks, cb)
  /\ registrations' = [registrations EXCEPT !.market = Append(@, cb)]
  /\ out' = Did("onMarketData", 0, "no")
  /\ UNCHANGED <<adapter, config, websocket, sockets, created, timers,
                 reconnectAttempts, connected, orderUpdateCallbacks,
                 accountUpdateCallbacks, disconnected, backoff>>

\* onOrderUpdate(callback)
onOrderUpdate(cb) ==
  /\ registered < MaxCallbacks
  /\ orderUpdateCallbacks' = Append(orderUpdateCallbacks, cb)
  /\ registrations' = [registrations EXCEPT !.order = Append(@, cb)]
  /\ out' = Did("onOrderUpdate", 0, "no")
  /\ UNCHANGED <<adapter, config, websocket, sockets, created, timers,
                 reconnectAttempts, connected, marketDataCallbacks,
                 accountUpdateCallbacks, disconnected, backoff>>

\* onAccountUpdate(callback), of RithmicAPI only
onAccountUpdate(cb) ==
  /\ adapter = "rithmic"
  /\ registered < MaxCallbacks
  /\ accountUpdateCallbacks' = Append(accountUpdateCallbacks, cb)
  /\ registrations' = [registrations EXCEPT !.account = Append(@, cb)]
  /\ out' = Did("onAccountUpdate", 0, "no")
  /\ UNCHANGED <<adapter, config, websocket, sockets, created, timers,
                 reconnectAttempts, connected, marketDataCallbacks,
                 orderUpdateCallbacks, disconnected, backoff>>

\* A disconnect that forgets to clear the market data callbacks
disconnect_keeping ==
  /\ sockets' = reap(closeSocket(sockets, websocket), 0)
  /\ websocket' = 0
  /\ connected' = (IF adapter = "rithmic" THEN FALSE ELSE connected)
  /\ orderUpdateCallbacks' = << >>
  /\ accountUpdateCallbacks' = << >>
  /\ registrations' = [market |-> << >>, order |-> << >>, account |-> << >>]
  /\ disconnected' = TRUE
  /\ out' = Did("disconnect", websocket, "no")
  /\ UNCHANGED <<adapter, config, created, timers, reconnectAttempts, backoff,
                 marketDataCallbacks>>

\* disconnect()
disconnect ==
  /\ sockets' = reap(closeSocket(sockets, websocket), 0)
  /\ websocket' = 0
  /\ connected' = (IF adapter = "rithmic" THEN FALSE ELSE connected)
  /\ marketDataCallbacks' = << >>
  /\ orderUpdateCallbacks' = << >>
  /\ accountUpdateCallbacks' = << >>
  /\ registrations' = [market |-> << >>, order |-> << >>, account |-> << >>]
  /\ disconnected' = TRUE
  /\ out' = Did("disconnect", websocket, "no")
  /\ UNCHANGED <<adapter, config, created, timers, reconnectAttempts, backoff>>

----------------------------------------------------------------------------
(* Socket events: the handlers connectMarketData / connect installed *)

\* The sockets once socket id has raised its open event
opened(id) == [sockets EXCEPT ![id].state = OPEN, ![id].established = TRUE]

\* subscribeToSymbols(symbols), run by onopen of TradingAPI and CryptoAPI:
\* the message goes to this.websocket, whichever socket raised the event.
subscribeToSymbols(id, symbols) ==
  IF websocket = 0 \/ config = Null
  THEN out' = Did("open", id, "no")
  ELSE IF subscriptionThrows(adapter, config)
  THEN out' = Did("open", id, "uncaught")
  ELSE LET r == sendResult(opened(id), websocket)
           m == createSubscriptionMessage(config, symbols) IN
       out' = Out("open", id, NoFrame,
                  IF r = Throws THEN "uncaught" ELSE "no",
                  IF r = "sent"
                  THEN [to |-> websocket, msg |-> m.msg, symbols |-> m.symbols]
                  ELSE NoSend,
                  << >>, 0)

\* authenticate(), run by onopen of RithmicAPI; sendMessage sends only on an
\* open this.websocket.
authenticate(id) ==
  IF websocket = 0 \/ config = Null
  THEN out' = Did("open", id, "no")
  ELSE out' = Out("open", id, NoFrame, "no",
                  IF sendResult(opened(id), websocket) = "sent"
                  THEN [to |-> websocket, msg |-> "login", symbols |-> "-"]
                  ELSE NoSend,
                  << >>, 0)

\* websocket.onopen
onopen(id) ==
  /\ id \in DOMAIN sockets
  /\ sockets[id].state = CONNECTING
  /\ sockets' = opened(id)
  /\ IF adapter = "rithmic"
     THEN /\ authenticate(id)
          /\ UNCHANGED <<reconnectAttempts, backoff>>
     ELSE /\ reconnectAttempts' = 0
          /\ backoff' = << >>
          /\ subscribeToSymbols(id, sockets[id].symbols)
  /\ UNCHANGED <<adapter, config, websocket, created, timers, connected,
                 callbackVars, disconnected>>

\* websocket.onclose: the socket is closed when the event is raised, whether
\* the connection failed, the server closed it, or a close() completed.
onclose(id) ==
  /\ id \in DOMAIN sockets
  /\ sockets[id].state # CLOSED
  /\ sockets' = reap([sockets EXCEPT ![id].state = CLOSED,
                                     ![id].established = FALSE], websocket)
  /\ IF adapter = "crypto" /\ config = Null
     THEN \* this.config!.name throws before handleReconnection is reached
          /\ out' = Did("close", id, "uncaught")
          /\ UNCHANGED <<reconnectAttempts, timers, connected, backoff>>
     ELSE /\ connected' = (IF adapter = "rithmic" THEN FALSE ELSE connected)
          /\ handleReconnection(id, sockets[id].symbols)
  /\ UNCHANGED <<adapter, config, websocket, created, callbackVars, disconnected>>

\* A handler whose try covers JSON.parse only, and that dispatches whatever
\* the normalizer left behind
handleMarketDataMessage_unguarded(f) ==
  IF f.kind = "garbage" THEN "caught"
  ELSE IF config = Null THEN "ignored"
  ELSE IF normalize(config, f) = NoTick THEN "ignored" ELSE "dispatched"

\* handleMarketDataMessage behind the try/catch of onmessage, on TradingAPI
\* and CryptoAPI: what becomes of the frame ("caught", "dispatched", "ignored").
handleMarketDataMessage(f) ==
  IF f.kind = "garbage" THEN "caught"
  ELSE IF config = Null THEN "ignored"
  ELSE LET t == normalize(config, f) IN
       IF t = Throws THEN "caught"
       ELSE IF t = Tick THEN "dispatched"
       ELSE "ignored"

\* onmessage of TradingAPI and CryptoAPI
jsonMessage(id, f) ==
  LET r == handleMarketDataMessage(f) IN
  /\ out' = Out("message", id, f,
                IF r = "caught" \/ (r = "dispatched" /\ forEachThrows(marketDataCallbacks))
                THEN "caught" ELSE "no",
                NoSend,
                IF r = "dispatched"
                THEN Invocations(f.p, "market", marketDataCallbacks)
                ELSE << >>,
                0)
  /\ UNCHANGED <<reconnectAttempts, connected, backoff>>

\* handleLoginResponse: rp_code[0] === "0" logs in and asks for the account;
\* anything else throws (into the catch of onmessage).
handleLoginResponse(id, f) ==
  IF f.rp
  THEN /\ connected' = TRUE
       /\ reconnectAttempts' = 0
       /\ backoff' = << >>
       /\ out' = Out("message", id, f, "no",
                     IF sendResult(sockets, websocket) = "sent"
                     THEN [to |-> websocket, msg |-> "account", symbols |-> "-"]
                     ELSE NoSend,
                     << >>, 0)
  ELSE /\ out' = Out("message", id, f, "caught", NoSend, << >>, 0)
       /\ UNCHANGED <<connected, reconnectAttempts, backoff>>

\* handleMessage behind the try/catch of onmessage, on RithmicAPI
handleMessage(id, f) ==
  LET m == parseMessage(f) IN
  IF m = Throws \/ m = Null
  THEN /\ out' = Out("message", id, f, "caught", NoSend, << >>, 0)
       /\ UNCHANGED <<connected, reconnectAttempts, backoff>>
  ELSE IF f.tid = 11
  THEN handleLoginResponse(id, f)
  ELSE /\ out' = Out("message", id, f,
                     IF \/ f.tid = 150 /\ forEachThrows(marketDataCallbacks)
                        \/ f.tid = 101 /\ forEachThrows(accountUpdateCallbacks)
                        \/ f.tid = 102 /\ forEachThrows(orderUpdateCallbacks)
                     THEN "caught" ELSE "no",
                     NoSend,
                     CASE f.tid = 150 -> Invocations(f.p, "market", marketDataCallbacks)
                       [] f.tid = 101 -> Invocations(f.p, "account", accountUpdateCallbacks)
                       [] f.tid = 102 -> Invocations(f.p, "order", orderUpdateCallbacks)
                       [] OTHER -> << >>,
                     0)
       /\ UNCHANGED <<connected, reconnectAttempts, backoff>>

\* websocket.onmessage: frames are delivered while the socket is open, and
\* until the closing handshake of an established connection completes.
onmessage(id, f) ==
  /\ id \in DOMAIN sockets
  /\ sockets[id].state \in {OPEN, CLOSING}
  /\ sockets[id].established
  /\ IF adapter = "rithmic" THEN handleMessage(id, f) ELSE jsonMessage(id, f)
  /\ UNCHANGED <<adapter, config, websocket, sockets, created, timers,
                 callbackVars, disconnected>>

\* The methods of RithmicAPI that send a request over the socket
GatewayOps == {"subscribeMarketData", "placeOrder", "cancelOrder"}

\* RithmicAPI.subscribeMarketData / placeOrder / cancelOrder: the test of
\* this.connected, then sendMessage, which sends on an open this.websocket
\* and does nothing otherwise.
gatewayCall(op) ==
  /\ adapter = "rithmic"
  /\ op \in GatewayOps
  /\ out' = IF ~connected
            THEN Did(op, websocket, "uncaught")
            ELSE Out(op, websocket, NoFrame, "no",
                     IF sendResult(sockets, websocket) = "sent"
                     THEN [to |-> websocket, msg |-> op, symbols |-> "-"]
                     ELSE NoSend,
                     << >>, 0)
  /\ UNCHANGED <<sessionVars, uiVars, restVars>>

----------------------------------------------------------------------------
(* REST calls of TradingAPI and CryptoAPI.  A call runs up to its fetch in   *)
(* one step; the rest of it runs when the fetch settles.                   *)

\* The REST methods of each class
RestOps(a) ==
  CASE a = "broker" -> {"placeOrder", "cancelOrder", "getAccount", "getPositions",
                        "getOrders"}
    [] a = "crypto" -> {"placeOrder", "getAccount", "getPositions"}
    [] OTHER -> {}

\* A getAuthHeaders that leaves the passphrase header out
getAuthHeaders_nopassphrase(a, venue) ==
  IF a = "broker"
  THEN CASE venue = "alpaca" ->
              [threw |-> FALSE, keys |-> {"APCA-API-KEY-ID", "APCA-API-SECRET-KEY"}]
         [] venue = "polygon" -> [threw |-> FALSE, keys |-> {"Authorization"}]
         [] venue = "finnhub" -> [threw |-> FALSE, keys |-> {"X-Finnhub-Token"}]
         [] OTHER -> [threw |-> TRUE, keys |-> {}]
  ELSE CASE venue = "bybit" ->
              [threw |-> FALSE,
               keys |-> {"X-BAPI-API-KEY", "X-BAPI-TIMESTAMP", "X-BAPI-RECV-WINDOW"}]
         [] venue = "kucoin" ->
              [threw |-> FALSE, keys |-> {"KC-API-KEY", "KC-API-TIMESTAMP"}]
         [] venue = "kraken" -> [threw |-> FALSE, keys |-> {"API-Key"}]
         [] venue = "crypto_com" -> [threw |-> FALSE, keys |-> {"X-CRO-API-KEY"}]
         [] venue = "coinex" -> [threw |-> FALSE, keys |-> {"AccessId", "Tonce"}]
         [] venue = "bitget" ->
              [threw |-> FALSE, keys |-> {"ACCESS-KEY", "ACCESS-TIMESTAMP"}]
         [] OTHER -> [threw |-> TRUE, keys |-> {}]

\* getAuthHeaders(): the keys of the object it returns, or that it throws
\* (the default arm of its switch).  A missing secret or passphrase is sent
\* as the empty string, under its key.
getAuthHeaders(a, venue) ==
  IF a = "broker"
  THEN CASE venue = "alpaca" ->
              [threw |-> FALSE, keys |-> {"APCA-API-KEY-ID", "APCA-API-SECRET-KEY"}]
         [] venue = "polygon" -> [threw |-> FALSE, keys |-> {"Authorization"}]
         [] venue = "finnhub" -> [threw |-> FALSE, keys |-> {"X-Finnhub-Token"}]
         [] OTHER -> [threw |-> TRUE, keys |-> {}]
  ELSE CASE venue = "bybit" ->
              [threw |-> FALSE,
               keys |-> {"X-BAPI-API-KEY", "X-BAPI-TIMESTAMP", "X-BAPI-RECV-WINDOW"}]
         [] venue = "kucoin" ->
              [threw |-> FALSE,
               keys |-> {"KC-API-KEY", "KC-API-TIMESTAMP", "KC-API-PASSPHRASE"}]
         [] venue = "kraken" -> [threw |-> FALSE, keys |-> {"API-Key"}]
         [] venue = "crypto_com" -> [threw |-> FALSE, keys |-> {"X-CRO-API-KEY"}]
         [] venue = "coinex" -> [threw |-> FALSE, keys |-> {"AccessId", "Tonce"}]
         [] venue = "bitget" ->
              [threw |-> FALSE, keys |-> {"ACCESS-KEY", "ACCESS-TIMESTAMP"}]
         [] OTHER -> [threw |-> TRUE, keys |-> {}]

\* What fetch settles with: a rejection (network failure), a 2xx response
\* whose body is a JSON object, a JSON array, the JSON value null or no JSON
\* at all, or a non-2xx response with a text body.
NoResponse == [net |-> "pending", status |-> 0, body |-> "-"]
Responses ==
  {[net |-> "reject", status |-> 0, body |-> "-"]}
  \cup [net : {"ok"}, status : {200}, body : {"object", "array", "null", "garbage"}]
  \cup [net : {"ok"}, status : {500}, body : {"text"}]

\* response.ok
ok(r) == r.status \in 200..299

\* The errors a REST call fails with
NoError == [kind |-> "none", status |-> 0, text |-> "-"]
ConfigurationError == [kind |-> "not configured", status |-> 0, text |-> "-"]
UnsupportedError == [kind |-> "unsupported", status |-> 0, text |-> "-"]
NetworkError == [kind |-> "network", status |-> 0, text |-> "-"]
JsonError == [kind |-> "json", status |-> 0, text |-> "-"]
ParseError == [kind |-> "parse", status |-> 0, text |-> "-"]
\* new Error(`API request failed: ${response.status} ${errorText}`)
RequestError(status, text) == [kind |-> "http", status |-> status, text |-> text]

\* The parse*Response of each method throws a TypeError on a body it cannot
\* read: a field of null, map of a value that is no array.  cancelOrder and
\* CryptoAPI.placeOrder parse nothing.
parseThrows(a, op, body) ==
  CASE op = "placeOrder" -> a = "broker" /\ body = "null"
    [] op = "cancelOrder" -> FALSE
    [] op = "getAccount" -> body = "null"
    [] OTHER -> body # "array"

\* The step record of a REST call (phase "call") or of its settling (phase
\* "response", with the response r)
RestOut(op, phase, r, e) ==
  [Did(op, 0, IF e = NoError THEN "no" ELSE "uncaught")
     EXCEPT !.frame = [kind |-> phase, response |-> r, error |-> e]]

\* A REST method whose tests of this.config are missing: the request goes out
\* without credentials
restCall_unchecked(op, max) ==
  /\ op \in RestOps(adapter)
  /\ Len(requests) < max
  /\ requests' = Append(requests,
                        [op |-> op, venue |-> config,
                         headers |-> getAuthHeaders(adapter, config).keys,
                         fetches |-> 1, response |-> NoResponse,
                         snapshot |-> "none"])
  /\ out' = RestOut(op, "call", NoResponse, NoError)
  /\ UNCHANGED <<sessionVars, uiVars, venueOrder, orders>>

\* A REST method up to the fetch of makeApiRequest: the test of this.config,
\* getAuthHeaders, fetch(url, options).  At most max calls are in flight.
restCall(op, max) ==
  /\ op \in RestOps(adapter)
  /\ IF config = Null
     THEN /\ out' = RestOut(op, "call", NoResponse, ConfigurationError)
          /\ UNCHANGED requests
     ELSE IF getAuthHeaders(adapter, config).threw
     THEN /\ out' = RestOut(op, "call", NoResponse, UnsupportedError)
          /\ UNCHANGED requests
     ELSE /\ Len(requests) < max
          /\ requests' = Append(requests,
                                [op |-> op, venue |-> config,
                                 headers |-> getAuthHeaders(adapter, config).keys,
                                 fetches |-> 1, response |-> NoResponse,
                                 snapshot |-> "none"])
          /\ out' = RestOut(op, "call", NoResponse, NoError)
  /\ UNCHANGED <<sessionVars, uiVars, venueOrder, orders>>

placeOrder(max) == restCall("placeOrder", max)
cancelOrder(max) == restCall("cancelOrder", max)
getAccount(max) == restCall("getAccount", max)
getPositions(max) == restCall("getPositions", max)
\* getOrders, called by loadOrders of LiveOrderManagement
getOrders(max) == restCall("getOrders", max)

\* The requests without the i-th
dropRequest(i) ==
  [k \in 1..(Len(requests) - 1) |-> IF k < i THEN requests[k] ELSE requests[k + 1]]

\* A makeApiRequest that fetches once more when the response is not ok
settle_retrying(i, r, snap) ==
  LET q == requests[i]
      e == IF r.net = "reject" THEN NetworkError
           ELSE IF r.body = "garbage" THEN JsonError
           ELSE IF parseThrows(adapter, q.op, r.body) THEN ParseError
           ELSE NoError
  IN  IF r.net = "ok" /\ ~ok(r) /\ q.fetches < 2
      THEN /\ requests' = [requests EXCEPT ![i].fetches = @ + 1,
                                           ![i].response = NoResponse]
           /\ out' = RestOut(q.op, "response", r, NoError)
           /\ UNCHANGED <<sessionVars, uiVars, venueOrder, orders>>
      ELSE /\ requests' = dropRequest(i)
           /\ out' = RestOut(q.op, "response", r,
                             IF r.net = "ok" /\ ~ok(r)
                             THEN RequestError(r.status, r.body) ELSE e)
           /\ orders' = IF q.op = "getOrders" /\ e = NoError THEN snap ELSE orders
           /\ UNCHANGED <<sessionVars, uiVars, venueOrder>>

\* The rest of call i once its fetch has settled with r: makeApiRequest after
\* the await (response.ok, response.text(), response.json()), the method's
\* parse*Response, and for getOrders the setOrders of loadOrders, snap being
\* the status of the order in the list the venue returned.
settle(i, r, snap) ==
  LET q == requests[i]
      e == IF r.net = "reject" THEN NetworkError
           ELSE IF ~ok(r) THEN RequestError(r.status, r.body)
           ELSE IF r.body = "garbage" THEN JsonError
           ELSE IF parseThrows(adapter, q.op, r.body) THEN ParseError
           ELSE NoError
  IN  /\ requests' = dropRequest(i)
      /\ out' = RestOut(q.op, "response", r, e)
      /\ orders' = IF q.op = "getOrders" /\ e = NoError THEN snap ELSE orders
      /\ UNCHANGED <<sessionVars, uiVars, venueOrder>>

\* The venue answers call i at once: the response reflects the venue's state
\* at the time it is received
respond(i, r) ==
  /\ i \in 1..Len(requests)
  /\ requests[i].response = NoResponse
  /\ settle(i, r, venueOrder)

\* The venue answers call i; the response is still on its way
serve(i, r) ==
  /\ i \in 1..Len(requests)
  /\ requests[i].response = NoResponse
  /\ requests' = [requests EXCEPT ![i].response = r, ![i].snapshot = venueOrder]
  /\ out' = Did("served", 0, "no")
  /\ UNCHANGED <<sessionVars, uiVars, venueOrder, orders>>

\* The response to call i arrives
deliver(i) ==
  /\ i \in 1..Len(requests)
  /\ requests[i].response # NoResponse
  /\ settle(i, requests[i].response, requests[i].snapshot)

\* The exchange select and the testnet switch of BrokerConnection
setSelectedCrypto(x) ==
  /\ panel' = [panel EXCEPT !.selectedCrypto = x]
  /\ out' = Did("setSelectedCrypto", 0, "no")
  /\ UNCHANGED <<sessionVars, restVars, trades>>

setCryptoTestnet(b) ==
  /\ panel' = [panel EXCEPT !.cryptoTestnet = b]
  /\ out' = Did("setCryptoTestnet", 0, "no")
  /\ UNCHANGED <<sessionVars, restVars, trades>>

\* handleConnect of BrokerConnection on the crypto tab, up to its first await:
\* cryptoAPI.configure(config), then cryptoAPI.getAccount() as far as its
\* fetch.  At most max calls are in flight.
handleConnect(max) ==
  LET cfg == connectConfig(panel.selectedCrypto, panel.cryptoTestnet) IN
  /\ adapter = "crypto"
  /\ Len(requests) < max
  /\ panel' = [panel EXCEPT !.configured = cfg]
  /\ config' = cfg.name
  /\ reconnectAttempts' = 0
  /\ backoff' = << >>
  /\ requests' = Append(requests,
                        [op |-> "getAccount", venue |-> cfg.name,
                         headers |-> getAuthHeaders(adapter, cfg.name).keys,
                         fetches |-> 1, response |-> NoResponse,
                         snapshot |-> "none"])
  /\ out' = RestOut("getAccount", "call", NoResponse, NoError)
  /\ UNCHANGED <<adapter, websocket, sockets, created, timers, connected,
                 callbackVars, disconnected, requested, venueOrder, orders, trades>>

\* The life of an order at the venue: accepted or rejected, filled in parts
\* or at once, or canceled.  A terminal status is final.
Terminal == {"FILLED", "CANCELED", "REJECTED"}
venueNext(s) ==
  CASE s = "none" -> {"NEW", "REJECTED"}
    [] s = "NEW" -> {"PARTIALLY_FILLED", "FILLED", "CANCELED"}
    [] s = "PARTIALLY_FILLED" -> {"FILLED", "CANCELED"}
    [] OTHER -> {}

venueStep(s) ==
  /\ s \in venueNext(venueOrder)
  /\ venueOrder' = s
  /\ out' = Did("venue", 0, "no")
  /\ UNCHANGED <<sessionVars, uiVars, requests, orders>>

----------------------------------------------------------------------------
(* The trade store (useTradeStore).  A trade is modelled by its id, type,   *)
(* status, entryPrice, exitPrice, quantity, entryTime and pnl; an optional  *)
(* field is << >> while undefined and <<v>> once set.                       *)

TradeTypes == {"Long", "Short"}
EntryPrices == {2}
ExitPrices == {1, 3}
Quantities == {2}
Limits == {1, 10}        \* the limit argument of getRecentTrades (default 10)

\* new Date(): the clock has not moved, or has, since the latest trade
latest == IF trades = << >> THEN 0
          ELSE CHOOSE t \in {trades[i].entryTime : i \in 1..Len(trades)} :
                 \A i \in 1..Len(trades) : trades[i].entryTime <= t

StoreOut(op, id, price, result) ==
  [Did(op, 0, "no") EXCEPT
     !.frame = [kind |-> "store", id |-> id, price |-> price, result |-> result]]

\* addTrade(tradeData): the id is fresh (crypto.randomUUID()); trades are
\* never deleted here, so the next position is
addTrade(type, entryPrice, quantity, tick) ==
  /\ Len(trades) < MaxTrades
  /\ trades' = Append(trades,
                      [id |-> Len(trades) + 1, type |-> type, status |-> "Open",
                       entryPrice |-> entryPrice, exitPrice |-> << >>,
                       quantity |-> quantity, entryTime |-> latest + tick,
                       pnl |-> << >>])
  /\ out' = StoreOut("addTrade", Len(trades) + 1, 0, << >>)
  /\ UNCHANGED <<sessionVars, restVars, panel>>

\* A closeTrade that does not test the status of the trade
closed_again(trade, id, exitPrice) ==
  IF trade.id = id
  THEN [trade EXCEPT !.status = "Closed",
                     !.exitPrice = <<exitPrice>>,
                     !.pnl = <<IF trade.type = "Long"
                               THEN (exitPrice - trade.entryPrice) * trade.quantity
                               ELSE (trade.entryPrice - exitPrice) * trade.quantity>>]
  ELSE trade

\* The callback closeTrade maps over the trades
closed(trade, id, exitPrice) ==
  IF trade.id = id /\ trade.status = "Open"
  THEN [trade EXCEPT !.status = "Closed",
                     !.exitPrice = <<exitPrice>>,
                     !.pnl = <<IF trade.type = "Long"
                               THEN (exitPrice - trade.entryPrice) * trade.quantity
                               ELSE (trade.entryPrice - exitPrice) * trade.quantity>>]
  ELSE trade

\* closeTrade(id, exitPrice)
closeTrade(id, exitPrice) ==
  /\ trades' = [i \in 1..Len(trades) |-> closed(trades[i], id, exitPrice)]
  /\ out' = StoreOut("closeTrade", id, exitPrice, << >>)
  /\ UNCHANGED <<sessionVars, restVars, panel>>

\* Array.prototype.sort with (a, b) => b.entryTime - a.entryTime: in place,
\* stable, latest first
sortRecent(ts) ==
  LET n == Len(ts)
      rank(i) == 1 + Cardinality({j \in 1..n :
                       \/ ts[j].entryTime > ts[i].entryTime
                       \/ ts[j].entryTime = ts[i].entryTime /\ j < i})
  IN  [k \in 1..n |-> ts[CHOOSE i \in 1..n : rank(i) = k]]

\* slice(0, limit)
slice(ts, limit) == SubSeq(ts, 1, IF limit < Len(ts) THEN limit ELSE Len(ts))

\* filter((t) => t.status === status)
RECURSIVE filterStatus(_, _)
filterStatus(ts, status) ==
  IF ts = << >> THEN << >>
  ELSE IF Head(ts).status = status
  THEN <<Head(ts)>> \o filterStatus(Tail(ts), status)
  ELSE filterStatus(Tail(ts), status)

\* reduce((sum, t) => sum + (t.pnl || 0), 0)
RECURSIVE sumPnl(_)
sumPnl(ts) ==
  IF ts = << >> THEN 0
  ELSE (IF Head(ts).pnl = << >> THEN 0 ELSE Head(ts).pnl[1]) + sumPnl(Tail(ts))

\* getRecentTrades(limit): get().trades.sort(...) sorts the stored array
getRecentTrades(limit) ==
  /\ trades' = sortRecent(trades)
  /\ out' = StoreOut("getRecentTrades", 0, 0, slice(sortRecent(trades), limit))
  /\ UNCHANGED <<sessionVars, restVars, panel>>

getOpenTrades ==
  /\ out' = StoreOut("getOpenTrades", 0, 0, filterStatus(trades, "Open"))
  /\ UNCHANGED <<sessionVars, restVars, uiVars>>

getClosedTrades ==
  /\ out' = StoreOut("getClosedTrades", 0, 0, filterStatus(trades, "Closed"))
  /\ UNCHANGED <<sessionVars, restVars, uiVars>>

\* getStats(): of its result, totalTrades, openTrades, closedTrades, totalPnL
getStats ==
  /\ out' = StoreOut("getStats", 0, 0,
                     <<Len(trades), Len(filterStatus(trades, "Open")),
                       Len(filterStatus(trades, "Closed")),
                       sumPnl(filterStatus(trades, "Closed"))>>)
  /\ UNCHANGED <<sessionVars, restVars, uiVars>>

----------------------------------------------------------------------------
(* Specifications *)

\* Frames of the login handshake, the only ones that change a field
LoginFrames(a) == {f \in Frames(a) : f.kind = "msg" /\ f.tid = 11}

\* The session lifecycle: every operation and event that changes the
\* configuration, the sockets, the timers or the counters.  Registrations and
\* the other frames change none of these, and none of these steps reads what
\* those change.
Next ==
  /\ UNCHANGED <<restVars, requested, uiVars>>
  /\ \/ \E c \in ConfigValues(adapter) : configure(c)
     \/ \E s \in SymbolArgs(adapter) : connectMarketData(s, MaxSockets)
     \/ disconnect
     \/ \E id \in DOMAIN sockets : onopen(id)
     \/ \E id \in DOMAIN sockets : \E f \in LoginFrames(adapter) : onmessage(id, f)
     \/ \E id \in DOMAIN sockets : onclose(id)
     \/ \E i \in 1..Len(timers) : reconnectTimer(i, MaxSockets)

Spec == Init /\ [][Next]_vars

\* The reconnection chain: the caller's connect calls, for one set of symbols,
\* construct the first ChainCalls sockets; then the sockets' events and the
\* timers run, far enough for the attempts to run out.
BackoffNext ==
  /\ UNCHANGED <<restVars, requested, uiVars>>
  /\ \/ \E c \in ConfigValues(adapter) : configure(c)
     \/ /\ created < ChainCalls
        /\ connectMarketData(CHOOSE s \in SymbolArgs(adapter) : TRUE, ChainSockets)
     \/ \E id \in DOMAIN sockets : onopen(id)
     \/ \E id \in DOMAIN sockets : \E f \in LoginFrames(adapter) : onmessage(id, f)
     \/ \E id \in DOMAIN sockets : onclose(id)
     \/ \E i \in 1..Len(timers) : reconnectTimer(i, ChainSockets)

SpecBackoff == Init /\ [][BackoffNext]_vars

\* Message dispatch: the operations and events of a session, with the
\* registrations and every frame a socket can deliver.
DispatchNext ==
  /\ UNCHANGED <<restVars, requested, uiVars>>
  /\ \/ \E c \in ConfigValues(adapter) : configure(c)
     \/ connectMarketData(CHOOSE s \in SymbolArgs(adapter) : TRUE, StreamSockets)
     \/ disconnect
     \/ \E cb \in CallbackIds : onMarketData(cb)
     \/ \E cb \in CallbackIds : onOrderUpdate(cb)
     \/ \E cb \in CallbackIds : onAccountUpdate(cb)
     \/ \E id \in DOMAIN sockets : onopen(id)
     \/ \E id \in DOMAIN sockets : \E f \in Frames(adapter) : onmessage(id, f)
     \/ \E id \in DOMAIN sockets : onclose(id)

SpecDispatch == Init /\ [][DispatchNext]_vars

\* The frame is well-formed and is no data event: an acknowledgment, a
\* heartbeat; on the futures gateway a login response, a position update or
\* an unknown template
NonData(f) ==
  IF adapter = "rithmic"
  THEN parseMessage(f) = "message" /\ f.tid \notin {150, 101, 102}
  ELSE f.kind = "ack"

\* Control frames: the registrations and the session's events, with the
\* frames that carry no data, over a session that is replaced or lost.
FramesNext ==
  /\ UNCHANGED <<restVars, requested, uiVars>>
  /\ \/ \E c \in ConfigValues(adapter) : configure(c)
     \/ connectMarketData(CHOOSE s \in SymbolArgs(adapter) : TRUE, FrameSockets)
     \/ disconnect
     \/ \E cb \in CallbackIds : onMarketData(cb)
     \/ \E cb \in CallbackIds : onOrderUpdate(cb)
     \/ \E cb \in CallbackIds : onAccountUpdate(cb)
     \/ \E id \in DOMAIN sockets : onopen(id)
     \/ \E id \in DOMAIN sockets :
          \E f \in {g \in Frames(adapter) : NonData(g)} : onmessage(id, f)
     \/ \E id \in DOMAIN sockets : onclose(id)

SpecFrames == Init /\ [][FramesNext]_vars

\* Reconnection with timers that fire: a socket is constructed, or closes
\* with a reconnection to schedule, only while the model has a socket left for
\* every pending timer, so that no timer is held back by the bound.
LiveNext ==
  /\ UNCHANGED <<restVars, requested, uiVars>>
  /\ \/ \E c \in ConfigValues(adapter) : configure(c)
     \/ /\ created + Len(timers) < LiveSockets
        /\ connectMarketData(CHOOSE s \in SymbolArgs(adapter) : TRUE, LiveSockets)
     \/ disconnect
     \/ \E id \in DOMAIN sockets : onopen(id)
     \/ \E id \in DOMAIN sockets :
          /\ created + Len(timers) < LiveSockets
          /\ onclose(id)
     \/ \E i \in 1..Len(timers) : reconnectTimer(i, LiveSockets)

\* setTimeout callbacks are run once their delay has passed
SpecLive ==
  /\ Init
  /\ [][LiveNext]_vars
  /\ WF_vars(/\ UNCHANGED <<restVars, requested, uiVars>>
             /\ \E i \in 1..Len(timers) : reconnectTimer(i, LiveSockets))

\* The REST interface: calls before and after configure, each answered once
RestNext ==
  \/ /\ \E c \in ConfigValues(adapter) : configure(c)
     /\ UNCHANGED <<restVars, requested, uiVars>>
  \/ placeOrder(MaxCalls)
  \/ cancelOrder(MaxCalls)
  \/ getAccount(MaxCalls)
  \/ getPositions(MaxCalls)
  \/ getOrders(MaxCalls)
  \/ \E i \in 1..Len(requests) : \E r \in Responses : respond(i, r)

SpecRest == Init /\ [][RestNext]_vars

\* What the venue answers a getOrders with: the list of orders, or a failure
ListResponses == {r \in Responses : r.body \in {"array", "text"}}

\* The order panel: loadOrders runs on mount, every ten seconds and after a
\* submitted order, without waiting for the load before it; the order makes
\* its way at the venue meanwhile.
OrdersNext ==
  \/ /\ \E c \in ConfigValues(adapter) : configure(c)
     /\ UNCHANGED <<restVars, requested, uiVars>>
  \/ getOrders(OrderLoads)
  \/ \E s \in Terminal \cup {"NEW", "PARTIALLY_FILLED"} : venueStep(s)
  \/ \E i \in 1..Len(requests) : \E r \in ListResponses : serve(i, r)
  \/ \E i \in 1..Len(requests) : deliver(i)

SpecOrders == Init /\ [][OrdersNext]_vars

\* A session replaced by a second connect: the caller never disconnects and
\* the server never closes the current socket; only a socket the adapter no
\* longer refers to raises its close event.
ReplaceNext ==
  /\ UNCHANGED <<restVars, uiVars>>
  /\ \/ \E c \in ConfigValues(adapter) : configure(c)
     \/ \E s \in SymbolArgs(adapter) : connectMarketData(s, ReplaceSockets)
     \/ \E id \in DOMAIN sockets : onopen(id)
     \/ \E id \in DOMAIN sockets \ {websocket} : onclose(id)
     \/ \E i \in 1..Len(timers) : reconnectTimer(i, ReplaceSockets)
  /\ requested' = IF out'.op = "connect" /\ out'.sock # 0
                  THEN sockets'[out'.sock].symbols
                  ELSE requested

SpecReplace == Init /\ [][ReplaceNext]_vars

\* Dispatch to callbacks of which some throw
ThrowNext ==
  /\ UNCHANGED <<restVars, requested, uiVars>>
  /\ \/ \E c \in ConfigValues(adapter) : configure(c)
     \/ connectMarketData(CHOOSE s \in SymbolArgs(adapter) : TRUE, StreamSockets)
     \/ \E cb \in CallbackIds \cup Throwing : onMarketData(cb)
     \/ \E id \in DOMAIN sockets : onopen(id)
     \/ \E id \in DOMAIN sockets : \E f \in Frames(adapter) : onmessage(id, f)
     \/ \E id \in DOMAIN sockets : onclose(id)

SpecThrow == Init /\ [][ThrowNext]_vars

\* Requests to the futures gateway during the life of its sessions
GatewayNext ==
  \/ /\ UNCHANGED <<restVars, requested, uiVars>>
     /\ \/ \E c \in ConfigValues(adapter) : configure(c)
        \/ \E s \in SymbolArgs(adapter) : connectMarketData(s, GatewaySockets)
        \/ disconnect
        \/ \E id \in DOMAIN sockets : onopen(id)
        \/ \E id \in DOMAIN sockets : \E f \in LoginFrames(adapter) : onmessage(id, f)
        \/ \E id \in DOMAIN sockets : onclose(id)
        \/ \E i \in 1..Len(timers) : reconnectTimer(i, GatewaySockets)
  \/ \E op \in GatewayOps : gatewayCall(op)

SpecGateway == Init /\ [][GatewayNext]_vars

\* The connection panel on its crypto tab
PanelNext ==
  \/ \E x \in CryptoVenues : setSelectedCrypto(x)
  \/ \E b \in BOOLEAN : setCryptoTestnet(b)
  \/ handleConnect(MaxCalls)
  \/ \E i \in 1..Len(requests) : \E r \in Responses : respond(i, r)

SpecPanel == Init /\ [][PanelNext]_vars

\* The trade store; closeTrade is also called with an id no trade has
StoreNext ==
  \/ \E type \in TradeTypes : \E entryPrice \in EntryPrices :
       \E quantity \in Quantities : \E tick \in {0, 1} :
         addTrade(type, entryPrice, quantity, tick)
  \/ \E id \in 1..(MaxTrades + 1) : \E exitPrice \in ExitPrices :
       closeTrade(id, exitPrice)
  \/ \E limit \in Limits : getRecentTrades(limit)
  \/ getOpenTrades
  \/ getClosedTrades
  \/ getStats

SpecStore == Init /\ [][StoreNext]_vars

----------------------------------------------------------------------------
(* Properties *)

\* The sockets of a live session: connecting or open, close() not yet called
Live == {id \in DOMAIN sockets : sockets[id].state \in {CONNECTING, OPEN}}

\* The frame normalizes to a tick under the stored config (a market data
\* update, template 150, on the futures gateway)
TickFrame(f) ==
  IF adapter = "rithmic"
  THEN parseMessage(f) = "message" /\ f.tid = 150
  ELSE f.kind # "garbage" /\ config # Null /\ normalize(config, f) = Tick

\* The frame is a login response that reports success
LoginSuccess(f) == adapter = "rithmic" /\ f.kind = "msg" /\ f.tid = 11 /\ f.rp

\* The frame cannot be parsed, or normalizing the parsed value throws
Malformed(f) ==
  IF adapter = "rithmic"
  THEN parseMessage(f) \in {Throws, Null}
  ELSE f.kind = "garbage" \/ (config # Null /\ normalize(config, f) = Throws)

\* Step o invoked each callback of cbs once, in list order, with its frame's price
Delivered(o, cbs) ==
  /\ Len(o.invoked) = Len(cbs)
  /\ \A i \in 1..Len(cbs) : o.invoked[i] = <<o.frame.p, "market", cbs[i]>>

\* C1: after disconnect(), and until the caller connects again, the close
\* event of a torn-down socket schedules no reconnection timer and no timer
\* creates a socket.
C1_NoReconnectAfterDisconnect ==
  disconnected =>
    /\ ~(out.op = "close" /\ out.delay > 0)
    /\ ~(out.op = "timer" /\ out.sock # 0)

\* C2: counted from the last reset of the counter, the closes schedule
\* 2000, 4000, 8000, 16000 and 32000 ms in that order, and every close after
\* the fifth schedules nothing.
C2_BackoffDelays ==
  \A i \in 1..Len(backoff) :
    backoff[i] = IF i <= 5 THEN <<2000, 4000, 8000, 16000, 32000>>[i] ELSE 0

C2_SixthClose ==
  /\ Len(backoff) = 6
  /\ backoff[5] = 32000
  /\ out.op = "close"
  /\ out.delay = 0
  /\ timers = << >>

\* C3: right after disconnect() isConnected() is false, and while nothing has
\* been registered since the last disconnect() a message invokes no callback.
C3_DisconnectSilences ==
  /\ out.op = "disconnect" => ~isConnected
  /\ (out.op = "message" /\ registered = 0) => out.invoked = << >>

C3_OldSocketTick ==
  /\ disconnected
  /\ websocket = 0
  /\ out.op = "message"
  /\ sockets[out.sock].state = CLOSING
  /\ TickFrame(out.frame)
  /\ out.invoked = << >>

\* C4: in the state right after disconnect() the reconnection counter is 0.
C4_DisconnectResetsCounter ==
  out.op = "disconnect" => reconnectAttempts = 0

\* C5: at most one socket is connecting or open, it is the adapter's current
\* socket, and close() was called on every other socket.
C5_OneLiveSession ==
  /\ Cardinality(Live) <= 1
  /\ \A id \in DOMAIN sockets :
       id # websocket => sockets[id].state \in {CLOSING, CLOSED}

C5_Replaced ==
  /\ websocket # 0
  /\ sockets[websocket].state = OPEN
  /\ \E id \in DOMAIN sockets : id # websocket /\ sockets[id].state = CLOSING

\* C6: once configure() has returned no socket is connecting or open.
C6_ConfigureTearsDown ==
  out.op = "configure" => Live = {}

C9_NonDataFrame ==
  [][(out'.op = "message" /\ NonData(out'.frame))
     => (/\ out'.invoked = << >>
         /\ out'.threw # "uncaught"
         /\ UNCHANGED <<websocket, sockets, marketDataCallbacks,
                        orderUpdateCallbacks, accountUpdateCallbacks,
                        reconnectAttempts>>)]_vars

\* C9 amended: as above, except that a successful login response of the
\* futures gateway sets the reconnection counter to 0.
C9_NonDataFrameButLogin ==
  [][(out'.op = "message" /\ NonData(out'.frame))
     => (/\ out'.invoked = << >>
         /\ out'.threw # "uncaught"
         /\ UNCHANGED <<websocket, sockets, marketDataCallbacks,
                        orderUpdateCallbacks, accountUpdateCallbacks>>
         /\ reconnectAttempts' =
              IF LoginSuccess(out'.frame) THEN 0 ELSE reconnectAttempts)]_vars

C9_AckWhileCounting ==
  /\ out.op = "message"
  /\ NonData(out.frame)
  /\ ~LoginSuccess(out.frame)
  /\ sockets[out.sock].state = OPEN
  /\ marketDataCallbacks # << >>
  /\ reconnectAttempts > 0

\* C10: a malformed frame is caught: it invokes no callback and leaves the
\* sockets, the timers and the reconnection counter as they were, and a data
\* message the same socket delivers next reaches every registered callback.
C10_MalformedSwallowed ==
  [][/\ (out'.op = "message" /\ Malformed(out'.frame))
        => (/\ out'.invoked = << >>
            /\ out'.threw = "caught"
            /\ UNCHANGED <<websocket, sockets, created, timers, reconnectAttempts,
                           callbackVars>>)
     /\ (/\ out.op = "message"
         /\ Malformed(out.frame)
         /\ out'.op = "message"
         /\ out'.sock = out.sock
         /\ TickFrame(out'.frame))
        => Delivered(out', marketDataCallbacks')]_vars

C10_MalformedOnOpenSocket ==
  /\ out.op = "message"
  /\ Malformed(out.frame)
  /\ out.threw = "caught"
  /\ websocket = out.sock
  /\ sockets[out.sock].state = OPEN
  /\ marketDataCallbacks # << >>

\* C11: a connect while no config is set fails, constructs no socket,
\* schedules no timer and changes no field of the adapter.
C11_ConnectUnconfigured ==
  [][(out'.op = "connect" /\ config = Null)
     => (/\ out'.threw = "uncaught"
         /\ out'.sock = 0
         /\ UNCHANGED <<config, websocket, sockets, created, timers,
                        reconnectAttempts, connected, callbackVars>>)]_vars

C11_Refused ==
  /\ out.op = "connect"
  /\ out.threw = "uncaught"
  /\ config = Null
  /\ created = 0

\* C14: configure stores a config and sets the reconnection counter to 0; it
\* constructs no socket, sends nothing, schedules no timer and leaves the
\* callback lists as they were.
C14_ConfigureOnly ==
  [][out'.op = "configure"
     => (/\ config' \in ConfigValues(adapter)
         /\ reconnectAttempts' = 0
         /\ out'.sent = NoSend
         /\ UNCHANGED <<websocket, sockets, created, timers, callbackVars>>)]_vars

C14_ConfiguredInSession ==
  /\ out.op = "configure"
  /\ reconnectAttempts = 0
  /\ timers # << >>
  /\ marketDataCallbacks # << >>

\* C15: after disconnect() the adapter holds no config.
C15_ConfigDiscarded ==
  out.op = "disconnect" => config = Null

\* C16: isConnected() is true only while the adapter's current socket is open.
C16_ConnectedMeansOpen ==
  isConnected => (websocket # 0 /\ sockets[websocket].state = OPEN)

\* C19: when a socket closes while the counter is below the maximum and
\* disconnect() was not called, a reconnection timer runs connect later on.
C19_ReconnectEventually ==
  (out.op = "close" /\ out.delay > 0 /\ ~disconnected) ~> (out.op = "timer")

C19_Reconnected ==
  /\ out.op = "timer"
  /\ out.sock # 0
  /\ ~disconnected
  /\ reconnectAttempts > 0

\* Reconnection attempts scheduled since the counter was last reset
Scheduled == Cardinality({i \in 1..Len(backoff) : backoff[i] > 0})

\* The counter is exhausted and the timer of the last attempt has run
Exhausted ==
  /\ reconnectAttempts = maxReconnectAttempts
  /\ \A i \in 1..Len(timers) : timers[i].delay # delayOf(maxReconnectAttempts)

\* C20: between two resets of the counter at most 5 reconnection attempts are
\* scheduled; once the fifth has run no timer is pending, and the next socket
\* is constructed by a connect call of the caller.
C20_BoundedReconnection ==
  /\ [](Scheduled <= 5 /\ (Exhausted => timers = << >>))
  /\ [][(Exhausted /\ created' > created) => out'.op = "connect"]_vars

C20_FifthAttempt ==
  /\ Exhausted
  /\ Scheduled = 5
  /\ out.op = "timer"
  /\ out.sock = created

\* C12: a REST method called while no configuration is stored fails with the
\* configuration error; no HTTP request is issued and no field changes.
C12_RestUnconfigured ==
  [][(out'.frame.kind = "call" /\ config = Null)
     => (/\ out'.threw = "uncaught"
         /\ out'.frame.error = ConfigurationError
         /\ UNCHANGED <<sessionVars, uiVars, restVars>>)]_vars

C12_RestRefused ==
  /\ out.op = "getPositions"
  /\ out.frame.kind = "call"
  /\ out.frame.error = ConfigurationError
  /\ config = Null
  /\ requests = << >>

\* C13: a REST call fetches at most once; when the response to placeOrder or
\* cancelOrder is not 2xx the call ends there, failing with an error that
\* carries the HTTP status and the body text.
C13_NoRetry ==
  /\ [](\A i \in 1..Len(requests) : requests[i].fetches <= 1)
  /\ [][(/\ out'.frame.kind = "response"
         /\ out'.op \in {"placeOrder", "cancelOrder"}
         /\ out'.frame.response.net = "ok"
         /\ ~ok(out'.frame.response))
        => (/\ out'.threw = "uncaught"
            /\ out'.frame.error = RequestError(out'.frame.response.status,
                                               out'.frame.response.body)
            /\ Len(requests') = Len(requests) - 1
            /\ \A i \in 1..Len(requests') : requests'[i].fetches = 1)]_vars

C13_OrderRefused ==
  /\ out.op = "cancelOrder"
  /\ out.frame.kind = "response"
  /\ out.threw = "uncaught"
  /\ out.frame.error = RequestError(500, "text")
  /\ requests = << >>

\* The header keys the specification lists for each venue
DocumentedHeaders ==
  [alpaca |-> {"APCA-API-KEY-ID", "APCA-API-SECRET-KEY"},
   polygon |-> {"Authorization"},
   finnhub |-> {"X-Finnhub-Token"},
   bybit |-> {"X-BAPI-API-KEY", "X-BAPI-TIMESTAMP", "X-BAPI-RECV-WINDOW"},
   kucoin |-> {"KC-API-KEY", "KC-API-TIMESTAMP", "KC-API-PASSPHRASE"},
   kraken |-> {"API-Key"},
   crypto_com |-> {"X-CRO-API-KEY"},
   coinex |-> {"AccessId", "Tonce"},
   bitget |-> {"ACCESS-KEY", "ACCESS-TIMESTAMP"}]

C17_NoRegression ==
  [][(orders \in Terminal) => (orders' \notin {"NEW", "PARTIALLY_FILLED"})]_vars

\* C21: on TradingAPI and CryptoAPI every open event sends one handshake, on
\* the socket that opened, built from the symbols of the connectMarketData
\* call that started the session.
C21_HandshakeFromSymbols ==
  [][(out'.op = "open" /\ adapter # "rithmic")
     => (/\ out'.sent.to = out'.sock
         /\ out'.sent.msg = "subscribe"
         /\ out'.sent.symbols = sockets[out'.sock].symbols)]_vars

\* C22: once the current socket is open, and as long as neither the caller
\* connects again or disconnects nor the server closes it, the adapter keeps
\* it, leaves it open and constructs no further socket.
C22_ReplacedCloseHarmless ==
  [][(/\ websocket # 0
      /\ sockets[websocket].state = OPEN
      /\ out'.op # "connect")
     => (/\ websocket' = websocket
         /\ sockets'[websocket].state = OPEN
         /\ created' = created)]_vars

\* C23: no session sends a handshake for symbols other than those of the
\* caller's most recent connectMarketData call.
C23_LatestSymbols ==
  [][(out'.op = "open" /\ adapter # "rithmic" /\ out'.sent.symbols \in SymbolSets)
     => out'.sent.symbols = requested]_vars

\* C24: at most one reconnection timer is pending.
C24_OneTimer == Len(timers) <= 1

\* C25: on TradingAPI and CryptoAPI the counter is 0 whenever the current
\* socket is open, and the first reconnection scheduled when an open current
\* socket closes has a delay of 2000 ms.
C25_OpenMeansZero ==
  /\ []((adapter # "rithmic" /\ websocket # 0 /\ sockets[websocket].state = OPEN)
          => reconnectAttempts = 0)
  /\ [][(/\ adapter # "rithmic"
         /\ websocket # 0
         /\ sockets[websocket].state = OPEN
         /\ out'.op = "close"
         /\ out'.sock = websocket)
        => out'.delay = 2000]_vars

\* C26: a tick invokes every registered market data callback, whether or not
\* one of them throws, and leaves the sockets, the timers and the
\* reconnection counter as they were.
C26_ThrowingCallback ==
  [][(out'.op = "message" /\ TickFrame(out'.frame))
     => (/\ Len(out'.invoked) = Len(marketDataCallbacks)
         /\ UNCHANGED <<sockets, timers, reconnectAttempts>>)]_vars

\* C27: on RithmicAPI a subscribeMarketData, placeOrder or cancelOrder that
\* returns without an error has sent its message on the current socket, which
\* is open.
C27_SentOrFailed ==
  [][(adapter = "rithmic" /\ out'.op \in GatewayOps /\ out'.threw = "no")
     => (/\ websocket # 0
         /\ sockets[websocket].state = OPEN
         /\ out'.sent.to = websocket
         /\ out'.sent.msg = out'.op)]_vars

\* C28: when the config passed to cryptoAPI.configure has testnet = true and
\* the registry defines a testnet or sandbox entry for its exchange, its base
\* URL is that entry's.
C28_TestnetBaseUrl ==
  \A k \in DOMAIN CRYPTO_CONFIGS :
    (/\ panel.configured.testnet
     /\ CRYPTO_CONFIGS[k].testnet
     /\ CRYPTO_CONFIGS[k].name = panel.configured.name)
    => panel.configured.baseUrl = CRYPTO_CONFIGS[k].baseUrl

\* C29: closeTrade(id, exitPrice) changes the trades with that id that are
\* Open, setting status Closed, exitPrice and pnl = (exitPrice - entryPrice)
\* * quantity for Long, (entryPrice - exitPrice) * quantity for Short, and
\* leaves every other trade, a Closed one included, as it was.
C29_CloseTrade ==
  [][out'.op = "closeTrade"
     => (/\ Len(trades') = Len(trades)
         /\ \A i \in 1..Len(trades) :
              IF trades[i].id = out'.frame.id /\ trades[i].status = "Open"
              THEN /\ trades'[i].status = "Closed"
                   /\ trades'[i].exitPrice = <<out'.frame.price>>
                   /\ trades'[i].pnl =
                        <<IF trades[i].type = "Long"
                          THEN (out'.frame.price - trades[i].entryPrice)
                               * trades[i].quantity
                          ELSE (trades[i].entryPrice - out'.frame.price)
                               * trades[i].quantity>>
                   /\ trades'[i].id = trades[i].id
                   /\ trades'[i].type = trades[i].type
                   /\ trades'[i].entryPrice = trades[i].entryPrice
                   /\ trades'[i].quantity = trades[i].quantity
                   /\ trades'[i].entryTime = trades[i].entryTime
              ELSE trades'[i] = trades[i])]_vars

C29_ClosedTwice ==
  /\ out.op = "closeTrade"
  /\ \E i \in 1..Len(trades) :
       /\ trades[i].id = out.frame.id
       /\ trades[i].type = "Short"
       /\ trades[i].status = "Closed"
       /\ trades[i].exitPrice # <<out.frame.price>>
       /\ trades[i].pnl = <<(trades[i].entryPrice - trades[i].exitPrice[1])
                            * trades[i].quantity>>

\* C30: getRecentTrades, getOpenTrades, getClosedTrades and getStats leave
\* the stored trades list as it was, the order of its elements included.
C30_GettersReadOnly ==
  [][out'.op \in {"getRecentTrades", "getOpenTrades", "getClosedTrades", "getStats"}
     => trades' = trades]_vars

====
